---- MODULE Spec2Model ----
(***************************************************************************)
(* State-machine model of the local-docker build scripts:                  *)
(*   scripts/build-minecraft-images.py    (build batch, topology merge)    *)
(*   scripts/rebuild-minecraft-instances.py                                *)
(* Identifiers (project ids, game names, service names, volume names) are  *)
(* sequences of one-character strings so that the character filters of    *)
(* the code are computed, not assumed.                                     *)
(***************************************************************************)
EXTENDS Integers, Sequences, FiniteSets, TLC

(* ------------------------------------------------------------------ *)
(* Bounds of the model                                                 *)
(* ------------------------------------------------------------------ *)
MaxBatch == 3
MaxRuns == 2
MaxLen == 3     \* longest input string given to a sanitizer
MaxApply == 2   \* applications of one sanitizer in a row
MaxCandidates == 2  \* compatible files a Modrinth version list offers
MaxBuiltJars == 2   \* built engine-bridge jars in ../engine-bridge/build/libs

(* ------------------------------------------------------------------ *)
(* Characters and the string helpers of the code                       *)
(* ------------------------------------------------------------------ *)
\* Characters are one-element strings; a character outside the keyboard
\* is written by its code point: U+0130 is the capital I with dot above,
\* U+0307 the combining dot above, U+0E22 and U+0E07 the two Thai letters
\* of the pattern of line 563, U+00A7 the section sign.
\* str.isalnum() of one character: letters and digits of any script.
IsAlnum(c) ==
    c \in {"a","b","c","d","e","g","h","i","k","l","m","n","o","p","r","s",
           "t","u","v","w","y","L","S","W","1","é",
           "U+0130","U+0E22","U+0E07"}

\* str.isascii() of one character.
IsAscii(c) == c \notin {"é","U+0130","U+0307","U+0E22","U+0E07","U+00A7"}

\* str.lower() of one character; the lower case of U+0130 is the two
\* characters i, U+0307.
LowerChar(c) ==
    CASE c = "L" -> <<"l">>
      [] c = "S" -> <<"s">>
      [] c = "W" -> <<"w">>
      [] c = "U+0130" -> <<"i", "U+0307">>
      [] OTHER -> <<c>>

RECURSIVE Lower(_)
\* str.lower()
Lower(s) == IF s = <<>> THEN <<>> ELSE LowerChar(Head(s)) \o Lower(Tail(s))

KeepChar(c) == IsAlnum(c) \/ c \in {"-", "_"}

\* ''.join(c for c in game_name if c.isalnum() or c in ('-', '_'))
SanitizeName(s) == SelectSeq(s, KeepChar)

\* ''.join(c for c in game_name.lower() if c.isalnum() or c in ('-', '_'))
SanitizeNameLower(s) == SelectSeq(Lower(s), KeepChar)

\* Line 547: ''.join(c for c in project_id if c.isalnum() or c in ('-', '_')).lower()
SanitizedProjectId(project_id) == Lower(SanitizeName(project_id))

\* Line 556: game_name.lower().replace(' ', '-')
GameNameTag(game_name) ==
    LET low == Lower(game_name)
    IN  [i \in 1..Len(low) |-> IF low[i] = " " THEN "-" ELSE low[i]]

\* [0-9a-fk-or] under re.IGNORECASE
IsColorCode(c) ==
    c \in {"a","b","c","d","e","k","l","m","n","o","r","L","1"}

RECURSIVE StripColorCodes(_)
\* Line 563: re.sub(r'<U+0E22><U+0E07>[0-9a-fk-or]', '', display_name,
\* flags=re.IGNORECASE): leftmost non-overlapping matches are removed.
StripColorCodes(s) ==
    IF s = <<>> THEN <<>>
    ELSE IF /\ Len(s) >= 3
            /\ s[1] = "U+0E22"
            /\ s[2] = "U+0E07"
            /\ IsColorCode(s[3])
         THEN StripColorCodes(SubSeq(s, 4, Len(s)))
         ELSE <<Head(s)>> \o StripColorCodes(Tail(s))

KeepAsciiChar(c) == IsAscii(c) /\ KeepChar(c)

\* Lines 563-565: the display-name tag.
CleanDisplay(display_name) ==
    Lower(SelectSeq(StripColorCodes(display_name), KeepAsciiChar))

\* f"{sanitized_game_name}-1"
ContainerName(game_name) == SanitizeName(game_name) \o <<"-", "1">>

ServiceName(game_name) == SanitizeNameLower(game_name)

(* ------------------------------------------------------------------ *)
(* Names used by the code                                              *)
(* ------------------------------------------------------------------ *)
N_mongodb == <<"m","o","n","g","o","d","b">>
N_kafka == <<"k","a","f","k","a">>
N_kafka_ui == <<"k","a","f","k","a","-","u","i">>
N_zookeeper == <<"z","o","o","k","e","e","p","e","r">>
N_velocity == <<"v","e","l","o","c","i","t","y">>

infrastructure_services == {N_mongodb, N_kafka, N_kafka_ui, N_zookeeper, N_velocity}

NetworkName == "local-docker-network"

MongoPrefix == <<"m","o","n","g","o","-">>
PostgresPrefix == <<"p","o","s","t","g","r","e","s","-">>
MysqlPrefix == <<"m","y","s","q","l","-">>
MongoVolPrefix == <<"m","o","n","g","o","d","b","_","d","a","t","a","_">>
PostgresVolPrefix == <<"p","o","s","t","g","r","e","s","_","d","a","t","a","_">>
MysqlVolPrefix == <<"m","y","s","q","l","_","d","a","t","a","_">>

base_port == 25565

(* ------------------------------------------------------------------ *)
(* The project directories given to the build script (its inputs)      *)
(* ------------------------------------------------------------------ *)
Paths == {"pA", "pB", "pC"}

Id_alpha == <<"a","l","p","h","a">>
Id_beta == <<"b","e","t","a">>
Id_gamma == <<"g","a","m","m","a">>

\* projectId of config/game-properties.yaml
ProjectId(p) ==
    CASE p = "pA" -> Id_alpha
      [] p = "pB" -> Id_beta
      [] OTHER -> Id_gamma

\* game.name of config/game-properties.yaml
GameName(p) ==
    CASE p = "pA" -> <<"L","o","b"," ","b","y">>
      [] p = "pB" -> <<"l","o","b","b","y">>
      [] OTHER -> N_velocity

Db_core == <<"c","o","r","e">>
Db_players == <<"p","l","a","y","e","r","s">>
Db_users == <<"u","s","e","r","s">>
Db_stats == <<"s","t","a","t","s">>

\* config/databases/*.yaml of a project, in glob order: databaseName
\* (stripped) and type (stripped, upper-cased).
Databases(p) ==
    CASE p = "pA" -> << [name |-> <<>>, type |-> "MONGO"],
                        [name |-> Db_core, type |-> "REDIS"] >>
      [] p = "pB" -> << [name |-> Db_core, type |-> "MONGO"],
                        [name |-> Db_users, type |-> "POSTGRES"] >>
      [] OTHER -> << [name |-> Db_players, type |-> "MONGO"],
                     [name |-> Db_users, type |-> "MYSQL"],
                     [name |-> Db_stats, type |-> ""] >>

(* ------------------------------------------------------------------ *)
(* create_databases_from_configs                                       *)
(* ------------------------------------------------------------------ *)
VARIABLE databases_dirs  \* project paths that have a config/databases directory

SeenNames(created) == {created[i].name : i \in 1..Len(created)}

\* One yaml file: skipped without a name, without a type, or when the
\* name was seen before; otherwise appended to databases_created.
ScanFile(created, db) ==
    IF db.name = <<>> \/ db.type = "" \/ db.name \in SeenNames(created)
    THEN created
    ELSE Append(created, db)

RECURSIVE ScanFiles(_, _)
ScanFiles(created, files) ==
    IF files = <<>> THEN created
    ELSE ScanFiles(ScanFile(created, Head(files)), Tail(files))

RECURSIVE ScanProjects(_, _)
ScanProjects(created, paths) ==
    IF paths = <<>> THEN created
    ELSE IF Head(paths) \notin databases_dirs
         THEN ScanProjects(created, Tail(paths))
         ELSE ScanProjects(ScanFiles(created, Databases(Head(paths))), Tail(paths))

create_databases_from_configs(project_paths) == ScanProjects(<<>>, project_paths)

(* ------------------------------------------------------------------ *)
(* Resource-service ports                                              *)
(* ------------------------------------------------------------------ *)
\* int(hashlib.md5(db_name.encode()).hexdigest(), 16), reduced modulo
\* 10^6 (a multiple of 100, so hash_val % 100 is the code's value).
md5_hash_val(db_name) ==
    CASE db_name = Db_core -> 931045
      [] db_name = Db_players -> 69945
      [] db_name = Db_users -> 693383
      [] OTHER -> 420335

\* Mutant of get_mongo_port: the base is MongoDB's default port.
get_mongo_port_DefaultBase(db_name) == 27017 + (md5_hash_val(db_name) % 100)

get_mongo_port(db_name) == 27018 + (md5_hash_val(db_name) % 100)

get_postgres_port(db_name) == 5433 + (md5_hash_val(db_name) % 100)

get_mysql_port(db_name) == 3307 + (md5_hash_val(db_name) % 100)

(* ------------------------------------------------------------------ *)
(* Topology (docker-compose.yml) entries                               *)
(* ------------------------------------------------------------------ *)
\* A service entry.  Absent keys are the empty sequence, "", 0 or FALSE;
\* replicas = 0 stands for a deploy section without a replicas key.
\* extra stands for every other key of an entry read from the file.
EmptyEntry ==
    [image |-> <<>>, project_id |-> <<>>, project_name |-> <<>>,
     container |-> <<>>, port_label |-> 0, published |-> 0,
     volume |-> <<>>, db_name |-> <<>>, service_label |-> "",
     has_deploy |-> FALSE, replicas |-> 0, extra |-> ""]

EmptyMap == [x \in {} |-> 0]

Put(m, k, v) == [x \in (DOMAIN m) \cup {k} |-> IF x = k THEN v ELSE m[x]]

\* The file as yaml.safe_load(f) or {} reads it; a truncated (empty)
\* file loads as None, hence {}.
LoadedData(file) ==
    IF file.state = "valid"
    THEN [services |-> file.services, networks |-> file.networks,
          volumes |-> file.volumes]
    ELSE [services |-> EmptyMap, networks |-> EmptyMap, volumes |-> EmptyMap]

\* Mutant of EnsureReplicas: replicas is overwritten even when set.
EnsureReplicas_Overwrite(service_config) ==
    [service_config EXCEPT !.has_deploy = TRUE, !.replicas = 1]

\* Mutant of EnsureReplicas: the replicas default is applied only to an
\* entry that already had a deploy section (elif in place of the second if).
EnsureReplicas_Elif(service_config) ==
    IF ~service_config.has_deploy
    THEN [service_config EXCEPT !.has_deploy = TRUE]
    ELSE [service_config EXCEPT
             !.replicas = IF service_config.replicas # 0
                          THEN service_config.replicas ELSE 1]

\* Lines 719-723: a preserved entry gets deploy.replicas = 1 when it has
\* no deploy section or no replicas key.
EnsureReplicas(service_config) ==
    [service_config EXCEPT
        !.has_deploy = TRUE,
        !.replicas = IF service_config.has_deploy /\ service_config.replicas # 0
                     THEN service_config.replicas ELSE 1]

\* Mutant of PreservedServices: every prior service is kept.
PreservedServices_All(all_services) ==
    [n \in DOMAIN all_services |-> EnsureReplicas(all_services[n])]

\* Lines 716-723: only the infrastructure services are kept.
PreservedServices(all_services) ==
    [n \in (DOMAIN all_services) \cap infrastructure_services |->
        EnsureReplicas(all_services[n])]

\* Lines 726-837: the entry generated for one built project.
GameServiceEntry(project) ==
    [EmptyEntry EXCEPT
        !.image = project.image_tags[1],
        !.project_id = project.project_id,
        !.project_name = project.game_name,
        !.container = ContainerName(project.game_name),
        !.port_label = project.port,
        !.has_deploy = TRUE,
        !.replicas = 1]

\* Line 829: existing_services[service_name] = service_config
AddGameService(existing_services, project) ==
    Put(existing_services, ServiceName(project.game_name), GameServiceEntry(project))

RECURSIVE AddGameServices(_, _)
AddGameServices(existing_services, projects) ==
    IF projects = <<>> THEN existing_services
    ELSE AddGameServices(AddGameService(existing_services, Head(projects)),
                         Tail(projects))

\* Lines 991, 1034, 1076: the configs of one store type, in list order.
IsMongo(db) == db.type = "MONGO"
IsPostgres(db) == db.type \in {"POSTGRES", "POSTGRESQL"}
IsMysql(db) == db.type = "MYSQL"

MongoEntry(db_name) ==
    [EmptyEntry EXCEPT
        !.image = <<"mongo:7.0">>,
        !.published = get_mongo_port(db_name),
        !.volume = MongoVolPrefix \o db_name,
        !.db_name = db_name,
        !.service_label = "mongodb",
        !.has_deploy = TRUE,
        !.replicas = 1]

PostgresEntry(db_name) ==
    [EmptyEntry EXCEPT
        !.image = <<"postgres:16">>,
        !.published = get_postgres_port(db_name),
        !.volume = PostgresVolPrefix \o db_name,
        !.db_name = db_name,
        !.service_label = "postgresql",
        !.has_deploy = TRUE,
        !.replicas = 1]

MysqlEntry(db_name) ==
    [EmptyEntry EXCEPT
        !.image = <<"mysql:8.0">>,
        !.published = get_mysql_port(db_name),
        !.volume = MysqlVolPrefix \o db_name,
        !.db_name = db_name,
        !.service_label = "mysql",
        !.has_deploy = TRUE,
        !.replicas = 1]

\* Lines 992-1031, 1035-1073, 1077-1116: a service is added only when no
\* service of that name exists yet.
AddIfAbsent(existing_services, service_name, entry) ==
    IF service_name \in DOMAIN existing_services
    THEN existing_services
    ELSE Put(existing_services, service_name, entry)

RECURSIVE AddMongoServices(_, _)
AddMongoServices(existing_services, dbs) ==
    IF dbs = <<>> THEN existing_services
    ELSE AddMongoServices(
             AddIfAbsent(existing_services, MongoPrefix \o Head(dbs).name,
                         MongoEntry(Head(dbs).name)),
             Tail(dbs))

RECURSIVE AddPostgresServices(_, _)
AddPostgresServices(existing_services, dbs) ==
    IF dbs = <<>> THEN existing_services
    ELSE AddPostgresServices(
             AddIfAbsent(existing_services, PostgresPrefix \o Head(dbs).name,
                         PostgresEntry(Head(dbs).name)),
             Tail(dbs))

RECURSIVE AddMysqlServices(_, _)
AddMysqlServices(existing_services, dbs) ==
    IF dbs = <<>> THEN existing_services
    ELSE AddMysqlServices(
             AddIfAbsent(existing_services, MysqlPrefix \o Head(dbs).name,
                         MysqlEntry(Head(dbs).name)),
             Tail(dbs))

\* Lines 1119-1153: the default velocity entry.
VelocityEntry ==
    [EmptyEntry EXCEPT
        !.image = <<"local-velocity:latest">>,
        !.published = 25565,
        !.service_label = "velocity-proxy",
        !.has_deploy = TRUE,
        !.replicas = 1]

EnsureVelocity(existing_services) ==
    AddIfAbsent(existing_services, N_velocity, VelocityEntry)

\* Lines 1156-1160
EnsureNetwork(existing_networks, use_swarm) ==
    IF NetworkName \in DOMAIN existing_networks
    THEN existing_networks
    ELSE Put(existing_networks, NetworkName,
             IF use_swarm THEN [driver |-> "overlay", attachable |-> TRUE]
             ELSE [driver |-> "bridge", attachable |-> FALSE])

\* Lines 1175-1183: compose_data['volumes'][name] = None
RECURSIVE AddVolumes(_, _, _)
AddVolumes(volumes, prefix, dbs) ==
    IF dbs = <<>> THEN volumes
    ELSE AddVolumes(Put(volumes, prefix \o Head(dbs).name, ""), prefix, Tail(dbs))

\* Mutant of ComposeVolumes: only the volumes of this run are kept.
ComposeVolumes_Pruned(existing_volumes, database_configs) ==
    AddVolumes(
        AddVolumes(
            AddVolumes(EmptyMap, MongoVolPrefix,
                       SelectSeq(database_configs, IsMongo)),
            PostgresVolPrefix, SelectSeq(database_configs, IsPostgres)),
        MysqlVolPrefix, SelectSeq(database_configs, IsMysql))

\* Mutant of ComposeVolumes: the volumes of the prior state only, none
\* ensured for the resource services of this run.
ComposeVolumes_ExistingOnly(existing_volumes, database_configs) ==
    existing_volumes

\* Lines 1168-1183
ComposeVolumes(existing_volumes, database_configs) ==
    AddVolumes(
        AddVolumes(
            AddVolumes(existing_volumes, MongoVolPrefix,
                       SelectSeq(database_configs, IsMongo)),
            PostgresVolPrefix, SelectSeq(database_configs, IsPostgres)),
        MysqlVolPrefix, SelectSeq(database_configs, IsMysql))

\* Lines 698-1183: the compose_data that create_docker_compose dumps.
ComposeData(projects, file, use_swarm, database_configs) ==
    LET existing_data == LoadedData(file)
        s0 == PreservedServices(existing_data.services)
        s1 == AddGameServices(s0, projects)
        s2 == AddMongoServices(s1, SelectSeq(database_configs, IsMongo))
        s3 == AddPostgresServices(s2, SelectSeq(database_configs, IsPostgres))
        s4 == AddMysqlServices(s3, SelectSeq(database_configs, IsMysql))
    IN  [services |-> EnsureVelocity(s4),
         networks |-> EnsureNetwork(existing_data.networks, use_swarm),
         volumes |-> ComposeVolumes(existing_data.volumes, database_configs)]

(* ------------------------------------------------------------------ *)
(* build_project_image and the result collection of main               *)
(* ------------------------------------------------------------------ *)
\* Lines 547-552: the canonical tag of the image.
ImageLatestTag(project_id) ==
    <<"local-minecraft-">> \o SanitizedProjectId(project_id) \o <<":latest">>

\* Mutant of build_project_image: the default of the port parameter
\* (line 325) is recorded in place of the port passed in.
build_project_image_DefaultPort(project_path, port) ==
    [project_id |-> ProjectId(project_path),
     game_name |-> GameName(project_path),
     image_tags |-> << ImageLatestTag(ProjectId(project_path)) >>,
     port |-> 25565]

\* Lines 591-601: the dict a successful build returns.
build_project_image(project_path, port) ==
    [project_id |-> ProjectId(project_path),
     game_name |-> GameName(project_path),
     image_tags |-> << ImageLatestTag(ProjectId(project_path)) >>,
     port |-> port]

RECURSIVE SortedSeq(_)
\* sorted(completed_results.keys())
SortedSeq(S) ==
    IF S = {} THEN <<>>
    ELSE LET m == CHOOSE x \in S : \A y \in S : x <= y
         IN  <<m>> \o SortedSeq(S \ {m})

\* Line 1289: [completed_results[i] for i in sorted(completed_results.keys())]
OrderedResults(completed) ==
    LET keys == SortedSeq(DOMAIN completed)
    IN  [k \in 1..Len(keys) |-> completed[keys[k]]]

\* Lines 1350-1358: enumerate(results) indexes project_paths by the
\* position in results (i is 0-based in the code, 1-based here).
ProjectPathsMap(res, paths) ==
    [pid \in {res[i].project_id : i \in 1..Len(res)} |->
        LET i == CHOOSE j \in 1..Len(res) :
                    /\ res[j].project_id = pid
                    /\ \A k \in (j+1)..Len(res) : res[k].project_id # pid
        IN  [path |-> paths[i], project_name |-> res[i].game_name]]

(* ------------------------------------------------------------------ *)
(* State                                                               *)
(* ------------------------------------------------------------------ *)
VARIABLES
    pc,                 \* position of the build script's main
    runs,               \* invocations of the build script so far
    project_paths,      \* the batch, in submission order
    future,             \* index -> "running" | "ok" | "fail" | "raise"
    collected,          \* indexes as_completed has yielded
    completed_results,  \* index -> result dict (successes only)
    results,            \* the ordered list handed to the merger
    database_configs,   \* create_databases_from_configs(project_paths)
    use_swarm,          \* outcome of the swarm check
    compose_file,       \* docker-compose.yml on disk
    prior_file,         \* docker-compose.yml as it was when the merge read it
    project_paths_file, \* .project-paths.json on disk
    deployed,           \* "none" | "ok" | "failed": the deployment command
    exit_code           \* exit status of the process, -1 while it runs

\* The sanitizers applied to an input string.
VARIABLES
    san_kind,           \* the sanitizer in use, "none" before the first call
    san_text,           \* the input, then the latest output
    san_prev,           \* the argument of the latest call
    san_count           \* calls so far

mainVars == <<pc, runs, project_paths, future, collected, completed_results,
              results, database_configs, use_swarm, compose_file, prior_file,
              project_paths_file, deployed, exit_code, databases_dirs>>

\* One call of build_project_image.
VARIABLES
    task_in,            \* what the task finds: the project and its environment
    task_pc,            \* position in build_project_image
    build_dir,          \* the scratch directory: "none" | "exists" | "removed"
    engine_bridge_jar,  \* plugins/engine-bridge.jar: [source, mtime], source "none" without it
    libs_present,       \* whether the declared libraries were downloaded
    floodgate_present,  \* whether plugins/FLOODGATE.jar was downloaded
    paper_written,      \* config/paper-global.yml of the build directory
                        \* (state "error": amending it raised)
    task_result         \* "none" | "dict" | "None" | "raised"

\* One call of download_plugin.
VARIABLES
    dl_lib,             \* lib_name
    dl_pc,              \* "idle" | "start" | a source | "returned"
    dl_dest,            \* plugins_dir/<lib_name>.jar: [exists, size]
    dl_candidates,      \* Modrinth files still to try, -1 before the query
    dl_log,             \* the sources contacted, in order
    dl_result           \* "none" | "True" | "False"

\* One run of rebuild-minecraft-instances.py.
VARIABLE rb             \* [compose, paths_file, build_script_exists, pc,
                        \*  minecraft_services, project_paths_map, use_swarm,
                        \*  i, attempts, rebuild_count, redeploys,
                        \*  redeploy_result, exit_code]

\* One call of get_minecraft_containers of mc-command.py.
VARIABLE mc             \* [use_swarm, listing, pc, minecraft_services, i,
                        \*  containers]

\* One project from its build to its service entry in the topology.
VARIABLE pod            \* [project, pc, marker, next_key, secret_env_vars,
                        \*  environment, container_label]

sanVars == <<san_kind, san_text, san_prev, san_count>>

dlVars == <<dl_lib, dl_pc, dl_dest, dl_candidates, dl_log, dl_result>>

taskVars == <<task_in, task_pc, build_dir, engine_bridge_jar, libs_present,
              floodgate_present, paper_written, task_result>>

toolVars == <<pod, mc, rb>>

componentVars == <<sanVars, taskVars, dlVars, toolVars>>

vars == <<mainVars, componentVars>>

SanIdle ==
    /\ san_kind = "none"
    /\ san_text = <<>>
    /\ san_prev = <<>>
    /\ san_count = 0

\* config/paper-global.yml as yaml.safe_load reads it.  state: "absent",
\* "unparsable", "list" (the document is a sequence) or "map"; for a map,
\* top is the value of a key unrelated to proxies, proxies is "missing",
\* "null" (the key without a value) or "map", bungee the value of another
\* key under proxies, velocity_extra the value of a key under
\* proxies.velocity other than enabled, online-mode and secret, and
\* velocity_set tells whether these three hold the forwarding values
\* ("" stands for a key that is not there).
NoPaperFile ==
    [state |-> "absent", top |-> "", proxies |-> "missing", bungee |-> "",
     velocity_extra |-> "", velocity_set |-> FALSE]

PaperFiles ==
    {NoPaperFile,
     [NoPaperFile EXCEPT !.state = "unparsable"],
     [NoPaperFile EXCEPT !.state = "list"],
     [NoPaperFile EXCEPT !.state = "map", !.top = "chunks"],
     [NoPaperFile EXCEPT !.state = "map", !.top = "chunks", !.proxies = "null"],
     [NoPaperFile EXCEPT !.state = "map", !.top = "chunks", !.proxies = "map",
                         !.bungee = "online"],
     [NoPaperFile EXCEPT !.state = "map", !.proxies = "map", !.bungee = "online",
                         !.velocity_extra = "custom"]}

IdleTaskInput ==
    [dir_exists |-> FALSE, props_exist |-> FALSE, project_id |-> <<>>,
     tmp_ok |-> FALSE, use_local_jar |-> FALSE, local_jar |-> "missing",
     built_jars |-> {}, external_floodgate |-> FALSE,
     paper_global |-> NoPaperFile]

NoJar == [source |-> "none", mtime |-> 0]

TaskIdle ==
    /\ task_in = IdleTaskInput
    /\ task_pc = "idle"
    /\ build_dir = "none"
    /\ engine_bridge_jar = NoJar
    /\ libs_present = FALSE
    /\ floodgate_present = FALSE
    /\ paper_written = NoPaperFile
    /\ task_result = "none"

NoFile == [exists |-> FALSE, size |-> 0]

DlIdle ==
    /\ dl_lib = "none"
    /\ dl_pc = "idle"
    /\ dl_dest = NoFile
    /\ dl_candidates = -1
    /\ dl_log = <<>>
    /\ dl_result = "none"

\* No project on its way from build to topology.
IdlePod ==
    [project |-> [has_game |-> FALSE, name |-> <<>>, directory_name |-> <<>>,
                  project_id |-> <<>>, secret_env_keys |-> <<>>],
     pc |-> "idle", marker |-> <<>>, next_key |-> 1,
     secret_env_vars |-> EmptyMap, environment |-> EmptyMap,
     container_label |-> <<>>]

PodIdle == pod = IdlePod

\* get_minecraft_containers not called.
IdleMc ==
    [use_swarm |-> FALSE, listing |-> <<>>, pc |-> "idle",
     minecraft_services |-> <<>>, i |-> 1, containers |-> <<>>]

McIdle == mc = IdleMc

\* The rebuild script not started.
IdleRb ==
    [compose |-> [state |-> "absent", services |-> <<>>],
     paths_file |-> [state |-> "absent", paths |-> EmptyMap],
     build_script_exists |-> FALSE, pc |-> "idle",
     minecraft_services |-> <<>>, project_paths_map |-> EmptyMap,
     use_swarm |-> FALSE, i |-> 1, attempts |-> <<>>, rebuild_count |-> 0,
     redeploys |-> 0, redeploy_result |-> "none", exit_code |-> -1]

RbIdle == rb = IdleRb

ToolsIdle == PodIdle /\ McIdle /\ RbIdle

ComponentsIdle == SanIdle /\ TaskIdle /\ DlIdle /\ ToolsIdle

AbsentFile ==
    [state |-> "absent", services |-> EmptyMap, networks |-> EmptyMap,
     volumes |-> EmptyMap]

N_oldgame == <<"o","l","d","g","a","m","e">>

\* A topology left by an earlier deployment: hand-tuned infrastructure
\* entries, stale game services (one of them named like a game of the
\* catalogue) and stale resource services (one of them named like a
\* database of the catalogue, edited by hand) with a volume.
DeployedFile ==
    [state |-> "valid",
     services |->
        (N_velocity :> [EmptyEntry EXCEPT !.image = <<"custom-velocity:1">>,
                           !.has_deploy = TRUE, !.replicas = 2,
                           !.extra = "tuned"])
        @@ (N_mongodb :> [EmptyEntry EXCEPT !.image = <<"mongo:6">>,
                           !.extra = "auth"])
        @@ (N_kafka :> [EmptyEntry EXCEPT !.image = <<"kafka:3">>,
                           !.has_deploy = TRUE])
        @@ (N_oldgame :> [EmptyEntry EXCEPT !.image = <<"local-minecraft-old:latest">>,
                           !.project_id = <<"o","l","d">>,
                           !.project_name = N_oldgame,
                           !.has_deploy = TRUE, !.replicas = 1,
                           !.extra = "manual"])
        @@ (<<"l","o","b","b","y">> :>
                          [EmptyEntry EXCEPT !.image = <<"local-minecraft-old:latest">>,
                           !.project_id = <<"o","l","d">>,
                           !.project_name = <<"l","o","b","b","y">>,
                           !.has_deploy = TRUE, !.replicas = 3,
                           !.extra = "manual"])
        @@ ((MongoPrefix \o Db_stats) :> MongoEntry(Db_stats))
        @@ ((MongoPrefix \o Db_core) :>
                          [MongoEntry(Db_core) EXCEPT !.published = 27017,
                           !.extra = "manual"]),
     networks |-> (NetworkName :> [driver |-> "bridge", attachable |-> FALSE]),
     volumes |-> ((MongoVolPrefix \o Db_stats) :> "")
                 @@ (<<"k","a","f","k","a","_","d","a","t","a">> :> "external")]

InitFiles == {AbsentFile, DeployedFile}

\* Batches: project paths in submission order, no path twice.
Batches ==
    {b \in UNION {[1..n -> Paths] : n \in 1..MaxBatch} :
        \A i, j \in 1..Len(b) : i # j => b[i] # b[j]}

InitMain ==
    /\ pc = "idle"
    /\ runs = 0
    /\ project_paths = <<>>
    /\ future = <<>>
    /\ collected = {}
    /\ completed_results = EmptyMap
    /\ results = <<>>
    /\ database_configs = <<>>
    /\ use_swarm = FALSE
    /\ compose_file \in InitFiles
    /\ prior_file = AbsentFile
    /\ project_paths_file = EmptyMap
    /\ deployed = "none"
    /\ exit_code = -1

\* Every project of the catalogue has its config/databases directory.
Init ==
    /\ InitMain
    /\ databases_dirs = Paths
    /\ ComponentsIdle

\* No project has a config/databases directory (line 642 skips them all).
InitNoDatabases ==
    /\ InitMain
    /\ databases_dirs = {}
    /\ ComponentsIdle

Terminated ==
    pc \in {"idle", "failed", "interrupted", "task_exception",
            "persist_error", "exited"}

(* ------------------------------------------------------------------ *)
(* Actions of main (build-minecraft-images.py)                         *)
(* ------------------------------------------------------------------ *)
\* Lines 1242-1278: a new invocation submits one build per project path.
StartRun(batch) ==
    /\ Terminated
    /\ runs < MaxRuns
    /\ pc' = "building"
    /\ runs' = runs + 1
    /\ project_paths' = batch
    /\ future' = [i \in 1..Len(batch) |-> "running"]
    /\ collected' = {}
    /\ completed_results' = EmptyMap
    /\ results' = <<>>
    /\ database_configs' = <<>>
    /\ use_swarm' = FALSE
    /\ prior_file' = AbsentFile
    /\ deployed' = "none"
    /\ exit_code' = -1
    /\ UNCHANGED <<compose_file, project_paths_file, databases_dirs>>
    /\ UNCHANGED componentVars

\* Line 1276: executor.submit(build_project_image, path, base_port + i),
\* i counted from 0 there and from 1 here.
AssignedPort(i) == base_port + (i - 1)

\* Lines 1276-1286: build_project_image of task i ends and as_completed
\* yields its future.  The task returns a dict ("ok"), returns None on a
\* failure it handled ("fail"), or ends with an exception raised outside
\* its try block, lines 327-360 ("raise").  future.result() re-raises
\* that exception in main, which has no handler: the with block waits for
\* the other tasks and the process ends with a traceback, status 1.
Collect(i, outcome) ==
    /\ pc = "building"
    /\ i \in DOMAIN future
    /\ future[i] = "running"
    /\ future' = [future EXCEPT ![i] = outcome]
    /\ collected' = collected \cup {i}
    /\ completed_results' =
          IF outcome = "ok"
          THEN Put(completed_results, i,
                   build_project_image(project_paths[i], AssignedPort(i)))
          ELSE completed_results
    /\ IF outcome = "raise"
       THEN pc' = "task_exception" /\ exit_code' = 1
       ELSE UNCHANGED <<pc, exit_code>>
    /\ UNCHANGED <<runs, project_paths, results, database_configs,
                   use_swarm, compose_file, prior_file, project_paths_file,
                   deployed, databases_dirs>>
    /\ UNCHANGED componentVars

\* Without the check of line 1291 an empty result list goes on to the merge.
NoProjectsBuilt_Never(res) == FALSE

\* Line 1291: if not results
NoProjectsBuilt(res) == res = <<>>

\* Lines 1289-1299: order the results; sys.exit(1) when there is none;
\* otherwise scan the database configurations.
SortResults ==
    /\ pc = "building"
    /\ collected = DOMAIN future
    /\ results' = OrderedResults(completed_results)
    /\ IF NoProjectsBuilt(results')
       THEN /\ pc' = "failed"
            /\ exit_code' = 1
            /\ UNCHANGED database_configs
       ELSE /\ pc' = "built"
            /\ database_configs' = create_databases_from_configs(project_paths)
            /\ UNCHANGED exit_code
    /\ UNCHANGED <<runs, project_paths, future, collected, completed_results,
                   use_swarm, compose_file, prior_file, project_paths_file,
                   deployed, databases_dirs>>
    /\ UNCHANGED componentVars

\* Lines 1311-1340: the swarm check decides the network driver.
CheckSwarm(active) ==
    /\ pc = "built"
    /\ use_swarm' = active
    /\ pc' = "merge"
    /\ UNCHANGED <<runs, project_paths, future, collected, completed_results,
                   results, database_configs, compose_file, prior_file,
                   project_paths_file, deployed, exit_code, databases_dirs>>
    /\ UNCHANGED componentVars

\* Lines 708-713 and 1185: create_docker_compose reads the file, builds
\* compose_data and opens the same path for writing, which truncates it.
OpenComposeFile ==
    /\ pc = "merge"
    /\ prior_file' = compose_file
    /\ compose_file' = [AbsentFile EXCEPT !.state = "truncated"]
    /\ pc' = "writing"
    /\ UNCHANGED <<runs, project_paths, future, collected, completed_results,
                   results, database_configs, use_swarm, project_paths_file,
                   deployed, exit_code, databases_dirs>>
    /\ UNCHANGED componentVars

\* Line 1185: open(compose_file, 'w') raises (the path is not writable).
\* Nothing catches it in create_docker_compose or in main (line 1346):
\* the process ends with a traceback, status 1, the file untouched.
OpenFails ==
    /\ pc = "merge"
    /\ prior_file' = compose_file
    /\ pc' = "persist_error"
    /\ exit_code' = 1
    /\ UNCHANGED <<runs, project_paths, future, collected, completed_results,
                   results, database_configs, use_swarm, compose_file,
                   project_paths_file, deployed, databases_dirs>>
    /\ UNCHANGED componentVars

\* Lines 1185-1186: yaml.dump writes compose_data and the file is closed.
DumpComposeFile ==
    /\ pc = "writing"
    /\ compose_file' =
          LET d == ComposeData(results, prior_file, use_swarm, database_configs)
          IN  [state |-> "valid", services |-> d.services,
               networks |-> d.networks, volumes |-> d.volumes]
    /\ pc' = "merged"
    /\ UNCHANGED <<runs, project_paths, future, collected, completed_results,
                   results, database_configs, use_swarm, prior_file,
                   project_paths_file, deployed, exit_code, databases_dirs>>
    /\ UNCHANGED componentVars

\* Line 1186: yaml.dump raises while writing (the disk is full); the
\* exception is not caught, the file stays as the open left it.
DumpFails ==
    /\ pc = "writing"
    /\ pc' = "persist_error"
    /\ exit_code' = 1
    /\ UNCHANGED <<runs, project_paths, future, collected, completed_results,
                   results, database_configs, use_swarm, compose_file,
                   prior_file, project_paths_file, deployed, databases_dirs>>
    /\ UNCHANGED componentVars

\* Lines 1348-1362: the project-path registry is written.
SaveProjectPaths ==
    /\ pc = "merged"
    /\ project_paths_file' = ProjectPathsMap(results, project_paths)
    /\ pc' = "done"
    /\ UNCHANGED <<runs, project_paths, future, collected, completed_results,
                   results, database_configs, use_swarm, compose_file,
                   prior_file, deployed, exit_code, databases_dirs>>
    /\ UNCHANGED componentVars

\* Lines 1406-1462: docker stack deploy, or docker-compose up.  A failing
\* command (CalledProcessError) is caught and reported; main returns
\* either way and the process ends with status 0.
Deploy(ok) ==
    /\ pc = "done"
    /\ deployed' = IF ok THEN "ok" ELSE "failed"
    /\ pc' = "exited"
    /\ exit_code' = 0
    /\ UNCHANGED <<runs, project_paths, future, collected, completed_results,
                   results, database_configs, use_swarm, compose_file,
                   prior_file, project_paths_file, databases_dirs>>
    /\ UNCHANGED componentVars

\* The process is killed (or the host stops) while the file is open.
Interrupt ==
    /\ pc = "writing"
    /\ pc' = "interrupted"
    /\ UNCHANGED <<runs, project_paths, future, collected, completed_results,
                   results, database_configs, use_swarm, compose_file,
                   prior_file, project_paths_file, deployed, exit_code,
                   databases_dirs>>
    /\ UNCHANGED componentVars

Next ==
    \/ \E batch \in Batches : StartRun(batch)
    \/ \E i \in 1..MaxBatch, outcome \in {"ok", "fail", "raise"} : Collect(i, outcome)
    \/ SortResults
    \/ \E active \in BOOLEAN : CheckSwarm(active)
    \/ OpenComposeFile
    \/ OpenFails
    \/ DumpComposeFile
    \/ DumpFails
    \/ SaveProjectPaths
    \/ \E ok \in BOOLEAN : Deploy(ok)
    \/ Interrupt

Spec == Init /\ [][Next]_vars

\* The same program started where no project has a config/databases
\* directory.
SpecNoDatabases == InitNoDatabases /\ [][Next]_vars

\* The build script not started, nothing deployed before.
MainIdle ==
    /\ InitMain
    /\ compose_file = AbsentFile
    /\ databases_dirs = Paths

(* ------------------------------------------------------------------ *)
(* The sanitizers, applied to arbitrary input strings                  *)
(* ------------------------------------------------------------------ *)
SanChars ==
    {"a", "L", " ", "-", "!", "é",
     "U+0130", "U+0307", "U+0E22", "U+0E07", "U+00A7"}

SanInputs == UNION {[1..n -> SanChars] : n \in 0..MaxLen}

Sanitizers == {"container", "service", "project_tag", "game_tag", "display_tag"}

\* The sanitizer of each derived identifier.
Sanitize(kind, x) ==
    CASE kind = "container" -> SanitizeName(x)
      [] kind = "service" -> SanitizeNameLower(x)
      [] kind = "project_tag" -> SanitizedProjectId(x)
      [] kind = "game_tag" -> GameNameTag(x)
      [] OTHER -> CleanDisplay(x)

InitSanitize ==
    /\ MainIdle
    /\ TaskIdle
    /\ DlIdle
    /\ ToolsIdle
    /\ san_kind = "none"
    /\ san_text \in SanInputs
    /\ san_prev = <<>>
    /\ san_count = 0

\* One call of a sanitizer on the current string.
ApplySanitizer(kind) ==
    /\ san_count < MaxApply
    /\ san_kind \in {"none", kind}
    /\ san_kind' = kind
    /\ san_prev' = san_text
    /\ san_text' = Sanitize(kind, san_text)
    /\ san_count' = san_count + 1
    /\ UNCHANGED <<mainVars, taskVars, dlVars, toolVars>>

NextSanitize == \E kind \in Sanitizers : ApplySanitizer(kind)

SpecSanitize == InitSanitize /\ [][NextSanitize]_vars

(* ------------------------------------------------------------------ *)
(* build_project_image, step by step                                   *)
(* ------------------------------------------------------------------ *)
Id_slash == <<"a", "/", "b">>

\* What one call can find: the project directory, its properties file,
\* its projectId (absent, plain, or holding a path separator), whether
\* the temporary directory is writable, the local-jar override of
\* lines 371-372 and the jar it names, and the modification times of
\* the engine-bridge-*-all-local.jar files in ../engine-bridge/build/libs,
\* whether external-plugins holds a Floodgate jar of the project, and
\* the project's config/paper-global.yml.
TaskInputs ==
    [dir_exists : BOOLEAN, props_exist : BOOLEAN,
     project_id : {<<>>, Id_alpha, Id_slash},
     tmp_ok : BOOLEAN, use_local_jar : BOOLEAN,
     local_jar : {"missing", "not_jar", "jar"},
     built_jars : SUBSET (1..MaxBuiltJars),
     external_floodgate : BOOLEAN,
     paper_global : PaperFiles]

InitTask ==
    /\ MainIdle
    /\ SanIdle
    /\ DlIdle
    /\ ToolsIdle
    /\ task_in \in TaskInputs
    /\ task_pc = "start"
    /\ build_dir = "none"
    /\ engine_bridge_jar = NoJar
    /\ libs_present = FALSE
    /\ floodgate_present = FALSE
    /\ paper_written = NoPaperFile
    /\ task_result = "none"

taskOthers == <<mainVars, sanVars, dlVars, toolVars>>

\* return None: nothing else is done on the way out of the function.
ReturnNone ==
    /\ task_result' = "None"
    /\ task_pc' = "returned"
    /\ UNCHANGED build_dir

\* Lines 603-607: except Exception removes build_dir and returns None.
ExceptHandler ==
    /\ task_result' = "None"
    /\ task_pc' = "returned"
    /\ build_dir' = "removed"

\* tempfile.mkdtemp creates <tmp>/minecraft-build-<project_id>-<random>:
\* with a path separator in project_id the parent does not exist.
HasPathSeparator(project_id) ==
    \E i \in 1..Len(project_id) : project_id[i] = "/"

\* Lines 327-347: the early returns before the scratch directory exists.
CheckProject ==
    /\ task_pc = "start"
    /\ IF ~task_in.dir_exists \/ ~task_in.props_exist \/ task_in.project_id = <<>>
       THEN ReturnNone
       ELSE /\ task_pc' = "mkdtemp"
            /\ UNCHANGED <<build_dir, task_result>>
    /\ UNCHANGED <<task_in, engine_bridge_jar, libs_present, floodgate_present, paper_written>>
    /\ UNCHANGED taskOthers

\* Line 360, before the try of line 362: an exception of mkdtemp leaves
\* the function.
MakeBuildDir ==
    /\ task_pc = "mkdtemp"
    /\ IF HasPathSeparator(task_in.project_id) \/ ~task_in.tmp_ok
       THEN /\ task_result' = "raised"
            /\ task_pc' = "returned"
            /\ UNCHANGED build_dir
       ELSE /\ build_dir' = "exists"
            /\ task_pc' = "bridge"
            /\ UNCHANGED task_result
    /\ UNCHANGED <<task_in, engine_bridge_jar, libs_present, floodgate_present, paper_written>>
    /\ UNCHANGED taskOthers

\* A source order that looks for a built jar before the override.
BridgeSource_BuildFirst(input) ==
    IF input.built_jars # {} THEN "local_build"
    ELSE IF input.use_local_jar THEN "override"
    ELSE "release"

\* Lines 374, 391-396, 403: the source the task takes the jar from.
BridgeSource(input) ==
    IF input.use_local_jar THEN "override"
    ELSE IF input.built_jars # {} THEN "local_build"
    ELSE "release"

\* Line 398: max(engine_bridge_files, key=lambda p: p.stat().st_mtime)
NewestBuiltJar(jars) == CHOOSE m \in jars : \A o \in jars : o <= m

\* Lines 366-414: the engine-bridge jar is copied from the override
\* path, else from the newest built jar, else downloaded from the
\* release.  copy_ok: shutil.copy2 does not raise; download_ok: the
\* release URL was found and download_file returned True.
GetEngineBridge(copy_ok, download_ok) ==
    /\ task_pc = "bridge"
    /\ CASE BridgeSource(task_in) = "override" ->
              IF task_in.local_jar # "jar"
              THEN ReturnNone /\ UNCHANGED engine_bridge_jar
              ELSE IF copy_ok
                   THEN /\ engine_bridge_jar' = [source |-> "override", mtime |-> 0]
                        /\ task_pc' = "jar"
                        /\ UNCHANGED <<build_dir, task_result>>
                   ELSE ExceptHandler /\ UNCHANGED engine_bridge_jar
         [] BridgeSource(task_in) = "local_build" ->
              IF copy_ok
              THEN /\ engine_bridge_jar' =
                         [source |-> "local_build",
                          mtime |-> NewestBuiltJar(task_in.built_jars)]
                   /\ task_pc' = "jar"
                   /\ UNCHANGED <<build_dir, task_result>>
              ELSE ExceptHandler /\ UNCHANGED engine_bridge_jar
         [] OTHER ->
              IF download_ok
              THEN /\ engine_bridge_jar' = [source |-> "release", mtime |-> 0]
                   /\ task_pc' = "jar"
                   /\ UNCHANGED <<build_dir, task_result>>
              ELSE ReturnNone /\ UNCHANGED engine_bridge_jar
    /\ UNCHANGED <<task_in, libs_present, floodgate_present, paper_written>>
    /\ UNCHANGED taskOthers

\* Lines 417-422: build_project_jar returns the jar, or None when gradlew
\* is missing, fails or times out (lines 260-323).
BuildProjectJar(built) ==
    /\ task_pc = "jar"
    /\ IF built
       THEN /\ task_pc' = "plugins"
            /\ UNCHANGED <<build_dir, task_result>>
       ELSE ReturnNone
    /\ UNCHANGED <<task_in, engine_bridge_jar, libs_present, floodgate_present, paper_written>>
    /\ UNCHANGED taskOthers

\* Lines 425-433: download_plugin is called for the declared libraries
\* and then for FLOODGATE; the value it returns is not looked at.
DownloadLibraries(downloaded, floodgate) ==
    /\ task_pc = "plugins"
    /\ libs_present' = downloaded
    /\ floodgate_present' = floodgate
    /\ task_pc' = "configure"
    /\ UNCHANGED <<task_in, build_dir, engine_bridge_jar, task_result,
                   paper_written>>
    /\ UNCHANGED taskOthers

\* Lines 466-473: paper_config = yaml.safe_load(f) or {}, and {} when the
\* file is absent or cannot be parsed.
LoadPaperConfig(file) ==
    IF file.state \in {"absent", "unparsable"}
    THEN [NoPaperFile EXCEPT !.state = "map"]
    ELSE file

\* Lines 476-484 raise a TypeError when paper_config is a list (it has no
\* key 'proxies' and cannot be indexed by one) or when
\* paper_config['proxies'] is None.
PaperConfigRaises(paper_config) ==
    paper_config.state = "list" \/ paper_config.proxies = "null"

\* Lines 476-484: proxies is created when missing and
\* paper_config['proxies']['velocity'] is assigned a new dict of the
\* three forwarding keys.
MergePaperConfig(paper_config) ==
    [paper_config EXCEPT !.proxies = "map", !.velocity_extra = "",
                         !.velocity_set = TRUE]

\* Lines 435-543: plugins, assets and configuration are copied,
\* paper-global.yml is read, amended and written, and the generated
\* files are written; any exception goes to the handler.  raises: an
\* exception other than one of the paper-global.yml merge.
Configure(raises) ==
    /\ task_pc = "configure"
    /\ LET paper_config == LoadPaperConfig(task_in.paper_global)
       IN  IF raises
           THEN ExceptHandler /\ UNCHANGED paper_written
           ELSE IF PaperConfigRaises(paper_config)
                THEN /\ ExceptHandler
                     /\ paper_written' = [NoPaperFile EXCEPT !.state = "error"]
                ELSE /\ paper_written' = MergePaperConfig(paper_config)
                     /\ task_pc' = "docker"
                     /\ UNCHANGED <<build_dir, task_result>>
    /\ UNCHANGED <<task_in, engine_bridge_jar, libs_present, floodgate_present>>
    /\ UNCHANGED taskOthers

\* Lines 573-601: docker build; a non-zero return code returns None, a
\* missing docker binary raises, success returns the result dict, which
\* holds build_dir.
DockerBuild(outcome) ==
    /\ task_pc = "docker"
    /\ CASE outcome = "ok" ->
               /\ task_result' = "dict"
               /\ task_pc' = "returned"
               /\ UNCHANGED build_dir
         [] outcome = "nonzero" -> ReturnNone
         [] OTHER -> ExceptHandler
    /\ UNCHANGED <<task_in, engine_bridge_jar, libs_present, floodgate_present, paper_written>>
    /\ UNCHANGED taskOthers

NextTask ==
    \/ CheckProject
    \/ MakeBuildDir
    \/ \E copy_ok \in BOOLEAN, download_ok \in BOOLEAN :
           GetEngineBridge(copy_ok, download_ok)
    \/ \E built \in BOOLEAN : BuildProjectJar(built)
    \/ \E downloaded \in BOOLEAN, floodgate \in BOOLEAN :
           DownloadLibraries(downloaded, floodgate)
    \/ \E raises \in BOOLEAN : Configure(raises)
    \/ \E outcome \in {"ok", "nonzero", "exception"} : DockerBuild(outcome)

SpecTask == InitTask /\ [][NextTask]_vars

(* ------------------------------------------------------------------ *)
(* download_file and download_plugin                                   *)
(* ------------------------------------------------------------------ *)
\* Lines 177, 186, 197, 211: a download is valid above this size.
MinValidSize == 100000

FileSizes == {0, 4096, 100000, 100001}

\* What one HTTP download can do: "refused" (the request or its status
\* raises before the file is opened), "broken" (the stream raises after
\* size bytes were written), "complete" (size bytes written, file closed).
DownloadOutcomes == {"refused", "broken", "complete"} \X FileSizes

\* Lines 65-79: the value download_file returns and the file it leaves.
download_file(dest, outcome) ==
    CASE outcome[1] = "refused" -> [ok |-> FALSE, dest |-> dest]
      [] outcome[1] = "broken" ->
            [ok |-> FALSE, dest |-> [exists |-> TRUE, size |-> outcome[2]]]
      [] OTHER ->
            [ok |-> outcome[2] # 0, dest |-> [exists |-> TRUE, size |-> outcome[2]]]

\* Lines 124-142: plugin_configs
plugin_configs ==
    [PROTOCOLLIB |-> {"modrinth", "spiget", "fallback"},
     LIBSDISGUISES |-> {"spiget", "fallback"},
     DECENTHOLOGRAMS |-> {"spiget", "fallback"},
     FLOODGATE |-> {"modrinth", "fallback"}]

LibNames == {"PROTOCOLLIB", "LIBSDISGUISES", "DECENTHOLOGRAMS", "FLOODGATE", "WORLDEDIT"}

\* The order of the blocks of download_plugin: lines 153, 193, 208.
SourceOrder_SpigetFirst == <<"spiget", "modrinth", "fallback">>

SourceOrder == <<"modrinth", "spiget", "fallback">>

\* The first configured source at position k or later, else "returned".
RECURSIVE SourceFrom(_, _)
SourceFrom(lib, k) ==
    IF k > Len(SourceOrder) THEN "returned"
    ELSE IF SourceOrder[k] \in plugin_configs[lib] THEN SourceOrder[k]
         ELSE SourceFrom(lib, k + 1)

\* The source tried after source src has failed.
SourceAfter(lib, src) ==
    SourceFrom(lib, 1 + CHOOSE k \in 1..Len(SourceOrder) : SourceOrder[k] = src)

InitDownload ==
    /\ MainIdle
    /\ SanIdle
    /\ TaskIdle
    /\ ToolsIdle
    /\ dl_lib \in LibNames
    /\ dl_pc = "start"
    /\ dl_dest = NoFile
    /\ dl_candidates = -1
    /\ dl_log = <<>>
    /\ dl_result = "none"

dlOthers == <<mainVars, sanVars, taskVars, toolVars>>

\* Lines 144-150: an unknown library returns False at once.
Lookup ==
    /\ dl_pc = "start"
    /\ IF dl_lib \notin DOMAIN plugin_configs
       THEN dl_pc' = "returned" /\ dl_result' = "False"
       ELSE dl_pc' = SourceFrom(dl_lib, 1) /\ UNCHANGED dl_result
    /\ UNCHANGED <<dl_lib, dl_dest, dl_candidates, dl_log>>
    /\ UNCHANGED dlOthers

\* The source moved to when the current one gave nothing; after the last
\* one download_plugin returns False (lines 218-219).
GiveUpSource ==
    /\ dl_pc' = SourceAfter(dl_lib, dl_pc)
    /\ dl_result' = IF SourceAfter(dl_lib, dl_pc) = "returned"
                     THEN "False" ELSE dl_result

\* One download into dest and its check: True is returned above the
\* minimum size, a smaller file is unlinked, and after a download that
\* returned False nothing is done to dest.
Attempt(outcome, more) ==
    LET d == download_file(dl_dest, outcome)
    IN  IF d.ok /\ d.dest.size > MinValidSize
        THEN /\ dl_dest' = d.dest
             /\ dl_pc' = "returned"
             /\ dl_result' = "True"
        ELSE /\ dl_dest' = IF d.ok THEN NoFile ELSE d.dest
             /\ IF more THEN UNCHANGED <<dl_pc, dl_result>> ELSE GiveUpSource

\* Lines 155-160: the version list of Modrinth is fetched; n files of
\* compatible versions are in it (none when the request fails).
ModrinthQuery(n) ==
    /\ dl_pc = "modrinth"
    /\ dl_candidates = -1
    /\ dl_candidates' = n
    /\ dl_log' = Append(dl_log, "modrinth")
    /\ IF n = 0 THEN GiveUpSource ELSE UNCHANGED <<dl_pc, dl_result>>
    /\ UNCHANGED <<dl_lib, dl_dest>>
    /\ UNCHANGED dlOthers

\* Lines 161-188: the loops over versions and files download the next
\* compatible file; they go on to the following one when it is rejected.
ModrinthDownload(outcome) ==
    /\ dl_pc = "modrinth"
    /\ dl_candidates > 0
    /\ dl_candidates' = dl_candidates - 1
    /\ dl_log' = Append(dl_log, "modrinth")
    /\ Attempt(outcome, dl_candidates > 1)
    /\ UNCHANGED dl_lib
    /\ UNCHANGED dlOthers

\* Lines 193-205
SpigetDownload(outcome) ==
    /\ dl_pc = "spiget"
    /\ dl_log' = Append(dl_log, "spiget")
    /\ Attempt(outcome, FALSE)
    /\ UNCHANGED <<dl_lib, dl_candidates>>
    /\ UNCHANGED dlOthers

\* Lines 208-219
FallbackDownload(outcome) ==
    /\ dl_pc = "fallback"
    /\ dl_log' = Append(dl_log, "fallback")
    /\ Attempt(outcome, FALSE)
    /\ UNCHANGED <<dl_lib, dl_candidates>>
    /\ UNCHANGED dlOthers

NextDownload ==
    \/ Lookup
    \/ \E n \in 0..MaxCandidates : ModrinthQuery(n)
    \/ \E outcome \in DownloadOutcomes : ModrinthDownload(outcome)
    \/ \E outcome \in DownloadOutcomes : SpigetDownload(outcome)
    \/ \E outcome \in DownloadOutcomes : FallbackDownload(outcome)

SpecDownload == InitDownload /\ [][NextDownload]_vars

(* ------------------------------------------------------------------ *)
(* One project: identity marker, prompted secrets, service environment *)
(* ------------------------------------------------------------------ *)
Dir_arena == <<"a","r","e","n","a">>

\* The secretEnvironmentVariableKeys lists of game-properties.yaml.
SecretKeyLists ==
    {<<>>, <<"API_KEY">>, <<"API_KEY", "DB_URL">>, <<"POD_NAME">>,
     <<"EULA", "API_KEY">>}

\* A project as the build finds it: whether game-properties.yaml has a
\* game section, game.name ('' without one), the directory name, the
\* projectId and the declared secret keys.
PodProjects ==
    [has_game : BOOLEAN,
     name : {<<>>, <<"L","o","b"," ","b","y">>},
     directory_name : {Dir_arena},
     project_id : {Id_alpha},
     secret_env_keys : SecretKeyLists]

\* What the caller does at a prompt: end of input, or a line (stripped).
PromptAnswers ==
    {[eof |-> TRUE, text |-> <<>>],
     [eof |-> FALSE, text |-> <<>>],
     [eof |-> FALSE, text |-> <<"hunter2">>]}

\* Lines 239-241 and 351: game_data has the key game_name only when the
\* file has a game section; game_data.get('game_name', directory_name).
BuildGameName(project) ==
    IF project.has_game THEN project.name ELSE project.directory_name

\* Lines 750-769 and 778: the variables the merger sets itself.
ServiceEnvironment(project_id, container_name) ==
    [k \in {"EULA", "TYPE", "VERSION", "MEMORY", "ONLINE_MODE", "DEBUG",
            "DEBUG_PORT", "GENERATE_STRUCTURES", "ALLOW_NETHER",
            "ALLOW_FLIGHT", "SPAWN_PROTECTION", "LEVEL_TYPE",
            "LEVEL_TYPE_FLAT_GENERATOR_SETTINGS", "POD_NAME",
            "MINEPLEX_PROJECT_ID", "DEV_MODE", "MINEPLEX_ENVIRONMENT"} |->
        CASE k = "EULA" -> <<"TRUE">>
          [] k = "TYPE" -> <<"PAPER">>
          [] k = "VERSION" -> <<"1.21.8">>
          [] k = "MEMORY" -> <<"2G">>
          [] k = "ONLINE_MODE" -> <<"FALSE">>
          [] k = "DEBUG" -> <<"true">>
          [] k = "DEBUG_PORT" -> <<"5005">>
          [] k = "GENERATE_STRUCTURES" -> <<"false">>
          [] k = "ALLOW_NETHER" -> <<"false">>
          [] k = "ALLOW_FLIGHT" -> <<"true">>
          [] k = "SPAWN_PROTECTION" -> <<"0">>
          [] k = "LEVEL_TYPE" -> <<"FLAT">>
          [] k = "LEVEL_TYPE_FLAT_GENERATOR_SETTINGS" -> <<"{}">>
          [] k = "POD_NAME" -> container_name
          [] k = "MINEPLEX_PROJECT_ID" -> project_id
          [] k = "DEV_MODE" -> <<"true">>
          [] OTHER -> <<>>]

\* Lines 781-786: for key, value in secret_env_vars.items():
\* environment[key] = value, when the project declares secret keys.
AddSecrets(environment, secret_env_keys, secret_env_vars) ==
    IF secret_env_keys = <<>> THEN environment
    ELSE [k \in (DOMAIN environment) \cup (DOMAIN secret_env_vars) |->
             IF k \in DOMAIN secret_env_vars THEN secret_env_vars[k]
             ELSE environment[k]]

podOthers == <<mainVars, sanVars, taskVars, dlVars, mc, rb>>

InitPod ==
    /\ MainIdle
    /\ SanIdle
    /\ TaskIdle
    /\ DlIdle
    /\ McIdle
    /\ RbIdle
    /\ \E project \in PodProjects :
          pod = [IdlePod EXCEPT !.project = project, !.pc = "start"]

\* Lines 349-355, 491-497, 589-599: the task derives the container name,
\* writes it to server/.mineplex-common-name and returns its result.
WriteCommonName ==
    /\ pod.pc = "start"
    /\ pod' = [pod EXCEPT
                  !.marker = ContainerName(BuildGameName(pod.project)),
                  !.pc = "built"]
    /\ UNCHANGED podOthers

\* Lines 609-624, called from lines 1301-1308: one prompt of
\* prompt_for_env_vars; an empty line and the end of input give "unset".
PromptKey(answer) ==
    /\ pod.pc = "built"
    /\ pod.next_key <= Len(pod.project.secret_env_keys)
    /\ LET key == pod.project.secret_env_keys[pod.next_key]
           value == IF answer.eof \/ answer.text = <<>>
                    THEN <<"unset">> ELSE answer.text
       IN  pod' = [pod EXCEPT
                      !.secret_env_vars = Put(pod.secret_env_vars, key, value),
                      !.next_key = pod.next_key + 1]
    /\ UNCHANGED podOthers

\* Lines 726-801: the environment and the labels of the project's
\* service entry.
MergeService ==
    /\ pod.pc = "built"
    /\ pod.next_key > Len(pod.project.secret_env_keys)
    /\ LET game_name == BuildGameName(pod.project)
           container_name == ContainerName(game_name)
       IN  pod' = [pod EXCEPT
                      !.environment =
                          AddSecrets(ServiceEnvironment(pod.project.project_id,
                                                        container_name),
                                     pod.project.secret_env_keys,
                                     pod.secret_env_vars),
                      !.container_label = container_name,
                      !.pc = "merged"]
    /\ UNCHANGED podOthers

NextPod ==
    \/ WriteCommonName
    \/ \E answer \in PromptAnswers : PromptKey(answer)
    \/ MergeService

SpecPod == InitPod /\ [][NextPod]_vars

(* ------------------------------------------------------------------ *)
(* mc-command.py: get_minecraft_containers                             *)
(* ------------------------------------------------------------------ *)
StackPrefix == <<"l","o","c","a","l","-","d","o","c","k","e","r","_">>

Str_minecraft == <<"m","i","n","e","c","r","a","f","t">>
Str_local == <<"l","o","c","a","l","-">>

\* What docker runs.  service: the name in the topology; stack: whether
\* it belongs to the local-docker stack; image: its image; kind: "game",
\* "infra" (velocity, mongodb, kafka, zookeeper, kafka-ui), "resource"
\* (a database service of the merger) or "foreign".
Workloads ==
    <<[service |-> <<"l","o","b","b","y">>, stack |-> TRUE, kind |-> "game",
       image |-> <<"l","o","c","a","l","-","m","i","n","e","c","r","a","f","t","-","a","l","p","h","a",":","l","a","t","e","s","t">>],
      [service |-> N_velocity, stack |-> TRUE, kind |-> "infra",
       image |-> <<"l","o","c","a","l","-","v","e","l","o","c","i","t","y",":","l","a","t","e","s","t">>],
      [service |-> N_mongodb, stack |-> TRUE, kind |-> "infra",
       image |-> <<"m","o","n","g","o",":","7",".","0">>],
      [service |-> MongoPrefix \o Db_core, stack |-> TRUE, kind |-> "resource",
       image |-> <<"m","o","n","g","o",":","7",".","0">>],
      [service |-> <<"r","e","g","i","s","t","r","y">>, stack |-> FALSE, kind |-> "foreign",
       image |-> <<"l","o","c","a","l","-","r","e","g","i","s","t","r","y",":","2">>]>>

\* The workloads that run, in the order docker lists them.
Listings ==
    {SelectSeq(Workloads, LAMBDA w : w \in S) :
        S \in SUBSET {Workloads[k] : k \in 1..Len(Workloads)}}

\* The name docker service ls prints: <stack>_<service>.
SwarmServiceName(w) ==
    IF w.stack THEN StackPrefix \o w.service
    ELSE <<"t","o","o","l","s","_">> \o w.service

\* The container of the first task of a Swarm service.
SwarmContainerName(w) == SwarmServiceName(w) \o <<".","1">>

\* The name docker ps prints in Compose mode.
ComposeContainerName(w) ==
    IF w.stack THEN StackPrefix \o w.service \o <<"_","1">>
    ELSE w.service

\* str.startswith
StartsWith(s, prefix) ==
    /\ Len(s) >= Len(prefix)
    /\ SubSeq(s, 1, Len(prefix)) = prefix

\* sub in s
Contains(s, sub) ==
    \E k \in 1..(Len(s) - Len(sub) + 1) : SubSeq(s, k, k + Len(sub) - 1) = sub

RECURSIVE Replace(_, _)
\* s.replace(old, ''): every occurrence, leftmost first
Replace(s, old) ==
    IF s = <<>> THEN <<>>
    ELSE IF StartsWith(s, old)
         THEN Replace(SubSeq(s, Len(old) + 1, Len(s)), old)
         ELSE <<Head(s)>> \o Replace(Tail(s), old)

RECURSIVE SplitFirst(_)
\* s.split('_')[0]
SplitFirst(s) ==
    IF s = <<>> \/ Head(s) = "_" THEN <<>>
    ELSE <<Head(s)>> \o SplitFirst(Tail(s))

\* Lines 87-88 and 148-150: the names that are excluded.
ExcludedNames == {StackPrefix \o n : n \in infrastructure_services}

\* Lines 84-89: the services of the stack that are not infrastructure.
IsMinecraftService(s) == StartsWith(s, StackPrefix) /\ s \notin ExcludedNames

\* Lines 147-151: `A and B and C or D` is `(A and B and C) or D`.
IsMinecraftContainer(container_name, image) ==
    \/ /\ StartsWith(container_name, StackPrefix)
       /\ container_name \notin ExcludedNames
       /\ Contains(Lower(image), Str_minecraft)
    \/ Contains(Lower(image), Str_local)

RECURSIVE ComposeContainers(_)
\* Lines 140-154: the loop over the lines of docker ps.
ComposeContainers(lines) ==
    IF lines = <<>> THEN <<>>
    ELSE LET container_name == ComposeContainerName(Head(lines))
             rest == ComposeContainers(Tail(lines))
         IN  IF IsMinecraftContainer(container_name, Head(lines).image)
             THEN <<[container |-> container_name,
                     service |-> SplitFirst(Replace(container_name, StackPrefix))]>>
                  \o rest
             ELSE rest

InitMc ==
    /\ MainIdle
    /\ SanIdle
    /\ TaskIdle
    /\ DlIdle
    /\ PodIdle
    /\ RbIdle
    /\ \E swarm \in BOOLEAN, listing \in Listings :
          mc = [IdleMc EXCEPT !.use_swarm = swarm, !.listing = listing,
                              !.pc = "start"]

mcOthers == <<mainVars, sanVars, taskVars, dlVars, pod, rb>>

\* Lines 72-89: docker service ls, filtered.
ServiceLs ==
    /\ mc.pc = "start"
    /\ mc.use_swarm
    /\ mc' = [mc EXCEPT
                 !.minecraft_services =
                     SelectSeq(mc.listing,
                               LAMBDA w : IsMinecraftService(SwarmServiceName(w))),
                 !.pc = "inspect"]
    /\ UNCHANGED mcOthers

\* Lines 92-130: the task and the container of one service are looked
\* up; a service without a task or a container, or whose lookup raises,
\* is skipped.
InspectService(outcome) ==
    /\ mc.pc = "inspect"
    /\ mc.i <= Len(mc.minecraft_services)
    /\ LET w == mc.minecraft_services[mc.i]
           service == SwarmServiceName(w)
       IN  mc' = [mc EXCEPT
                     !.containers =
                         IF outcome = "found"
                         THEN Append(@, [container |-> SwarmContainerName(w),
                                         service |-> Replace(service, StackPrefix)])
                         ELSE @,
                     !.i = @ + 1]
    /\ UNCHANGED mcOthers

\* Lines 131-154: Compose mode, docker ps and the loop over its lines.
DockerPs ==
    /\ mc.pc = "start"
    /\ ~mc.use_swarm
    /\ mc' = [mc EXCEPT !.containers = ComposeContainers(mc.listing),
                        !.pc = "returned"]
    /\ UNCHANGED mcOthers

\* Line 156: return containers
ReturnContainers ==
    /\ mc.pc = "inspect"
    /\ mc.i > Len(mc.minecraft_services)
    /\ mc' = [mc EXCEPT !.pc = "returned"]
    /\ UNCHANGED mcOthers

\* Lines 157-159: docker service ls or docker ps fails; [] is returned.
DockerFails ==
    /\ mc.pc = "start"
    /\ mc' = [mc EXCEPT !.containers = <<>>, !.pc = "returned"]
    /\ UNCHANGED mcOthers

NextMc ==
    \/ ServiceLs
    \/ \E outcome \in {"found", "no_task", "no_container", "raises"} :
          InspectService(outcome)
    \/ DockerPs
    \/ ReturnContainers
    \/ DockerFails

SpecMc == InitMc /\ [][NextMc]_vars

(* ------------------------------------------------------------------ *)
(* rebuild-minecraft-instances.py                                      *)
(* ------------------------------------------------------------------ *)
\* Service entries of docker-compose.yml as the rebuild script reads
\* them: the name, the com.plexverse.project.id label (<<>> without one)
\* and the image (<<>> without one).
TopologyEntries ==
    <<[name |-> <<"l","o","b","b","y">>, project_id |-> Id_alpha,
       image |-> <<"local-minecraft-alpha:latest">>],
      [name |-> N_velocity, project_id |-> <<>>,
       image |-> <<"local-velocity:latest">>],
      [name |-> Dir_arena, project_id |-> Id_beta,
       image |-> <<"local-minecraft-beta:latest">>],
      [name |-> N_kafka, project_id |-> Id_gamma,
       image |-> <<"local-minecraft-gamma:latest">>],
      [name |-> N_oldgame, project_id |-> Id_gamma, image |-> <<>>],
      [name |-> MongoPrefix \o Db_core, project_id |-> <<>>,
       image |-> <<"mongo:7.0">>]>>

\* docker-compose.yml: absent, not parsable, or its services in file order.
RebuildTopologies ==
    {[state |-> "absent", services |-> <<>>],
     [state |-> "unparsable", services |-> <<>>]}
    \cup {[state |-> "valid",
           services |-> SelectSeq(TopologyEntries, LAMBDA e : e \in S)] :
            S \in SUBSET {TopologyEntries[k] : k \in 1..Len(TopologyEntries)}}

\* A saved project path and whether the directory still exists.
SavedPath(name, exists) == [path |-> name, exists |-> exists]

\* .project-paths.json: absent, not parsable, or project id -> path.
RebuildPathsFiles ==
    {[state |-> "absent", paths |-> EmptyMap],
     [state |-> "unparsable", paths |-> EmptyMap],
     [state |-> "valid", paths |-> EmptyMap],
     [state |-> "valid", paths |-> (Id_beta :> SavedPath("pB", TRUE))],
     [state |-> "valid", paths |-> (Id_alpha :> SavedPath("pA", FALSE))
                                   @@ (Id_beta :> SavedPath("pB", TRUE))],
     [state |-> "valid", paths |-> (Id_alpha :> SavedPath("pA", TRUE))
                                   @@ (Id_beta :> SavedPath("pB", TRUE))
                                   @@ (Id_gamma :> SavedPath("pC", TRUE))]}

\* Mutant of get_minecraft_services: no name is skipped.
get_minecraft_services_NoSkip(compose) ==
    SelectSeq(compose.services, LAMBDA e : e.project_id # <<>>)

\* Lines 65-99: the entries that are not named like an infrastructure
\* service and have a project-id label; [] when the file cannot be parsed.
get_minecraft_services(compose) ==
    IF compose.state # "valid" THEN <<>>
    ELSE SelectSeq(compose.services,
                   LAMBDA e : /\ e.name \notin infrastructure_services
                              /\ e.project_id # <<>>)

\* Lines 101-112: {} when the file is absent or cannot be loaded.
load_project_paths(paths_file) ==
    IF paths_file.state = "valid" THEN paths_file.paths ELSE EmptyMap

\* Lines 250-251: project_paths_map.get(project_id, {}).get('path', '')
ProjectPath(project_paths_map, project_id) ==
    IF project_id \in DOMAIN project_paths_map
    THEN project_paths_map[project_id]
    ELSE SavedPath("", FALSE)

\* Lines 114-167: whether the image was rebuilt.  build: what
\* build_project_image does when it is called, "dict", "None" or "raised".
rebuild_image(service_info, project_path, build_script_exists, build) ==
    /\ service_info.image # <<>>
    /\ project_path.path # ""
    /\ project_path.exists
    /\ build_script_exists
    /\ build = "dict"

InitRebuild ==
    /\ MainIdle
    /\ SanIdle
    /\ TaskIdle
    /\ DlIdle
    /\ PodIdle
    /\ McIdle
    /\ \E compose \in RebuildTopologies, paths_file \in RebuildPathsFiles,
          script \in BOOLEAN :
          rb = [IdleRb EXCEPT !.compose = compose, !.paths_file = paths_file,
                              !.build_script_exists = script, !.pc = "start"]

rbOthers == <<mainVars, sanVars, taskVars, dlVars, pod, mc>>

\* Lines 216-226: the topology file is required and must hold at least
\* one Minecraft service.
ReadTopology ==
    /\ rb.pc = "start"
    /\ LET found == get_minecraft_services(rb.compose)
       IN  IF rb.compose.state = "absent" \/ found = <<>>
           THEN rb' = [rb EXCEPT !.pc = "exited", !.exit_code = 1]
           ELSE rb' = [rb EXCEPT !.minecraft_services = found, !.pc = "paths"]
    /\ UNCHANGED rbOthers

\* Lines 231-236: the saved project paths are required.
LoadProjectPaths ==
    /\ rb.pc = "paths"
    /\ LET loaded == load_project_paths(rb.paths_file)
       IN  IF loaded = EmptyMap
           THEN rb' = [rb EXCEPT !.pc = "exited", !.exit_code = 1]
           ELSE rb' = [rb EXCEPT !.project_paths_map = loaded, !.pc = "swarm"]
    /\ UNCHANGED rbOthers

\* Line 239: use_swarm = check_docker_swarm()
RebuildCheckSwarm(active) ==
    /\ rb.pc = "swarm"
    /\ rb' = [rb EXCEPT !.use_swarm = active, !.pc = "rebuild"]
    /\ UNCHANGED rbOthers

\* Lines 248-254: one pass of the loop, one call of rebuild_image.
RebuildService(build) ==
    /\ rb.pc = "rebuild"
    /\ rb.i <= Len(rb.minecraft_services)
    /\ LET service_info == rb.minecraft_services[rb.i]
           project_path == ProjectPath(rb.project_paths_map,
                                       service_info.project_id)
           rebuilt == rebuild_image(service_info, project_path,
                                    rb.build_script_exists, build)
       IN  rb' = [rb EXCEPT
                     !.attempts = Append(@, [name |-> service_info.name,
                                             rebuilt |-> rebuilt]),
                     !.rebuild_count = IF rebuilt THEN @ + 1 ELSE @,
                     !.i = @ + 1]
    /\ UNCHANGED rbOthers

\* Lines 263-268 and 169-210: redeploy_stack after the loop; the run
\* ends with status 1 when the deployment command fails (redeploy_stack
\* returns False, or the command cannot be started and the exception
\* ends the run) and with status 0 otherwise.
RedeployStack(ok) ==
    /\ rb.pc = "rebuild"
    /\ rb.i > Len(rb.minecraft_services)
    /\ rb' = [rb EXCEPT !.redeploys = @ + 1,
                        !.redeploy_result = IF ok THEN "True" ELSE "False",
                        !.exit_code = IF ok THEN 0 ELSE 1,
                        !.pc = "exited"]
    /\ UNCHANGED rbOthers

NextRebuild ==
    \/ ReadTopology
    \/ LoadProjectPaths
    \/ \E active \in BOOLEAN : RebuildCheckSwarm(active)
    \/ \E build \in {"dict", "None", "raised"} : RebuildService(build)
    \/ \E ok \in BOOLEAN : RedeployStack(ok)

SpecRebuild == InitRebuild /\ [][NextRebuild]_vars

(* ------------------------------------------------------------------ *)
(* Properties                                                          *)
(* ------------------------------------------------------------------ *)
Sorted ==
    pc \in {"failed", "built", "merge", "writing", "merged", "done",
            "interrupted", "persist_error", "exited"}

Merged == pc \in {"merged", "done", "exited"}

\* C1: for every batch of N submitted projects the coordinator returns
\* exactly N results, one per project, in submission order.
C1_ExactlyNResults ==
    Sorted =>
        /\ Len(results) = Len(project_paths)
        /\ \A k \in 1..Len(results) : results[k].port = base_port + (k - 1)

\* C2: in a batch where some build fails every other task still runs to
\* completion, and the merged topology holds exactly one game-service
\* entry (an entry with a project-id label) per successful build.
C2_FailureIsolation ==
    (Merged /\ \E i \in DOMAIN future : future[i] = "fail") =>
        /\ \A i \in DOMAIN future : future[i] # "running"
        /\ Cardinality({n \in DOMAIN compose_file.services :
                           compose_file.services[n].project_id # <<>>})
              = Cardinality({i \in DOMAIN future : future[i] = "ok"})

\* No game service of the batch has an infrastructure service's name.
NoOverlap ==
    \A k \in 1..Len(results) :
        ServiceName(results[k].game_name) \notin infrastructure_services

\* C3 as stated: with a prior state holding an infrastructure entry and a
\* batch whose managed names do not overlap it, the entry in the merged
\* state equals the prior entry (no field added, removed or changed).
C3_PreservedUnchanged ==
    (Merged /\ prior_file.state = "valid" /\ NoOverlap) =>
        \A n \in (DOMAIN prior_file.services) \cap infrastructure_services :
            /\ n \in DOMAIN compose_file.services
            /\ compose_file.services[n] = prior_file.services[n]

\* C3 amended: the merged entry equals the prior entry except that
\* deploy.replicas is 1 when the prior entry had no deploy section or no
\* replicas key in it.
C3_PreservedUpToReplicas ==
    (Merged /\ prior_file.state = "valid" /\ NoOverlap) =>
        \A n \in (DOMAIN prior_file.services) \cap infrastructure_services :
            /\ n \in DOMAIN compose_file.services
            /\ LET old == prior_file.services[n]
                   new == compose_file.services[n]
               IN  /\ new.has_deploy
                   /\ new.replicas = IF old.has_deploy /\ old.replicas # 0
                                     THEN old.replicas ELSE 1
                   /\ [new EXCEPT !.has_deploy = old.has_deploy,
                                  !.replicas = old.replicas] = old

\* A completed merge over a prior state with a tuned velocity entry
\* (replicas = 2) and an entry without deploy section, batch not
\* overlapping.
C3_Witness ==
    /\ pc = "done"
    /\ prior_file.state = "valid"
    /\ NoOverlap
    /\ N_velocity \in DOMAIN prior_file.services
    /\ prior_file.services[N_velocity].replicas = 2
    /\ N_mongodb \in DOMAIN prior_file.services
    /\ ~prior_file.services[N_mongodb].has_deploy
    /\ compose_file.services[N_mongodb].replicas = 1

\* C4: when the write of the topology file is interrupted, the prior
\* valid file is still present with its previous content.
C4_AtomicPersist ==
    (pc = "interrupted" /\ prior_file.state = "valid") =>
        compose_file = prior_file

\* C5: after the batch the registry maps each successful build's project
\* id to the path that build was made from (the path at its own
\* submission index, which its port records).
C5_RegistryPaths ==
    pc = "done" =>
        \A k \in 1..Len(results) :
            /\ results[k].project_id \in DOMAIN project_paths_file
            /\ project_paths_file[results[k].project_id].path
                  = project_paths[results[k].port - base_port + 1]

\* C6: after a merge the managed entries are exactly one game service per
\* successful build and one resource service per deduplicated database
\* configuration of a recognized store type: every successful build has
\* its own entry, and no other non-infrastructure entry exists.
C6_ManagedSet ==
    Merged =>
        LET svc == compose_file.services
            ok == {i \in DOMAIN future : future[i] = "ok"}
        IN  /\ \A i \in ok :
                  \E n \in DOMAIN svc :
                      svc[n].project_id = ProjectId(project_paths[i])
            /\ \A j \in 1..Len(database_configs) :
                  (IsMongo(database_configs[j]) \/ IsPostgres(database_configs[j])
                     \/ IsMysql(database_configs[j])) =>
                  \E n \in DOMAIN svc : svc[n].db_name = database_configs[j].name
            /\ \A n \in (DOMAIN svc) \ infrastructure_services :
                  \/ \E i \in ok : svc[n].project_id = ProjectId(project_paths[i])
                  \/ \E j \in 1..Len(database_configs) :
                         svc[n].db_name = database_configs[j].name

\* C7: every infrastructure entry of the prior state is still the prior
\* entry after the merge, whatever the batch (the deploy.replicas default
\* of lines 719-723 is not counted as a change here).
C7_InfraNotClobbered ==
    (Merged /\ prior_file.state = "valid") =>
        \A n \in (DOMAIN prior_file.services) \cap infrastructure_services :
            /\ n \in DOMAIN compose_file.services
            /\ [compose_file.services[n] EXCEPT !.has_deploy = TRUE, !.replicas = 1]
                  = [prior_file.services[n] EXCEPT !.has_deploy = TRUE, !.replicas = 1]

\* C8: when several manifests of the batch's projects declare the same
\* instance name, exactly one resource service exists for that name and
\* it is the one of the first manifest in project-iteration order.
C8_FirstWins ==
    Merged =>
        LET manifests ==
                {<<i, j>> \in (1..Len(project_paths)) \X (1..3) :
                    /\ j <= Len(Databases(project_paths[i]))
                    /\ Databases(project_paths[i])[j].name # <<>>
                    /\ Databases(project_paths[i])[j].type # ""}
            man(m) == Databases(project_paths[m[1]])[m[2]]
            before(a, b) == a[1] < b[1] \/ (a[1] = b[1] /\ a[2] < b[2])
            svc == compose_file.services
        IN  \A m \in manifests :
                ((\A o \in manifests : man(o).name = man(m).name => ~before(o, m))
                 /\ (\E o \in manifests : o # m /\ man(o).name = man(m).name))
                =>
                /\ Cardinality({n \in DOMAIN svc : svc[n].db_name = man(m).name}) = 1
                /\ \A n \in DOMAIN svc :
                      svc[n].db_name = man(m).name =>
                          svc[n].service_label =
                              (CASE man(m).type = "MONGO" -> "mongodb"
                                 [] man(m).type \in {"POSTGRES", "POSTGRESQL"} -> "postgresql"
                                 [] man(m).type = "MYSQL" -> "mysql"
                                 [] OTHER -> "unrecognized")

\* C9: every volume of the topology state a merge run read is in the
\* state that run wrote.
C9_VolumesNeverPruned ==
    Merged => (DOMAIN prior_file.volumes) \subseteq (DOMAIN compose_file.volumes)

\* A second run whose prior state holds the volume of a resource service
\* (mongodb_data_core) that this run does not declare.
C9_Witness ==
    /\ pc = "done"
    /\ runs = 2
    /\ (MongoVolPrefix \o Db_core) \in DOMAIN prior_file.volumes
    /\ (MongoVolPrefix \o Db_core) \in DOMAIN compose_file.volumes
    /\ \A j \in 1..Len(database_configs) : database_configs[j].name # Db_core

\* C10: every resource service of a merged topology is published on
\* base + (hash(name) mod 100) of its store type (27018 mongo, 5433
\* postgres, 3307 mysql), inside [base, base + 99], in every run; every
\* deduplicated configuration of a recognized type has its service, also
\* when two names share a port.
C10_PortFunction ==
    Merged =>
        LET svc == compose_file.services
            base(d) == CASE IsMongo(d) -> 27018
                         [] IsPostgres(d) -> 5433
                         [] OTHER -> 3307
            prefix(d) == CASE IsMongo(d) -> MongoPrefix
                           [] IsPostgres(d) -> PostgresPrefix
                           [] OTHER -> MysqlPrefix
        IN  \A j \in 1..Len(database_configs) :
                LET d == database_configs[j] IN
                (IsMongo(d) \/ IsPostgres(d) \/ IsMysql(d)) =>
                    /\ (prefix(d) \o d.name) \in DOMAIN svc
                    /\ svc[prefix(d) \o d.name].db_name = d.name
                    /\ svc[prefix(d) \o d.name].published
                          = base(d) + (md5_hash_val(d.name) % 100)
                    /\ svc[prefix(d) \o d.name].published >= base(d)
                    /\ svc[prefix(d) \o d.name].published <= base(d) + 99

\* Two distinct names (core, players) whose services share one port.
C10_Witness ==
    /\ pc = "done"
    /\ (MongoPrefix \o Db_core) \in DOMAIN compose_file.services
    /\ (MongoPrefix \o Db_players) \in DOMAIN compose_file.services
    /\ compose_file.services[MongoPrefix \o Db_core].published
          = compose_file.services[MongoPrefix \o Db_players].published

\* At least one task of the batch returned a result.
SomeBuilt == \E i \in DOMAIN future : future[i] = "ok"

C12_MergeIdempotent ==
    pc = "merged" =>
        LET again == ComposeData(results, compose_file, use_swarm, database_configs)
        IN  /\ again.services = compose_file.services
            /\ again.networks = compose_file.networks
            /\ again.volumes = compose_file.volumes

\* A merge over a prior state with an infrastructure entry lacking a
\* deploy section, a stale game service and a foreign volume, with
\* resource services created by this run.
C12_Witness ==
    /\ pc = "merged"
    /\ prior_file.state = "valid"
    /\ N_mongodb \in DOMAIN prior_file.services
    /\ ~prior_file.services[N_mongodb].has_deploy
    /\ N_oldgame \in DOMAIN prior_file.services
    /\ Len(database_configs) >= 2
    /\ Len(results) >= 2
    /\ use_swarm

\* C13: every service of the prior state whose name is not an
\* infrastructure name is absent from the merged state unless this run
\* generates an entry of that name, and such an entry is the freshly
\* generated one: no field of the prior entry is carried over.
C13_StaleReplaced ==
    (pc = "merged" /\ prior_file.state = "valid") =>
        LET svc == compose_file.services
            fresh(n) ==
                {GameServiceEntry(results[k]) : k \in
                    {k \in 1..Len(results) : ServiceName(results[k].game_name) = n}}
                \cup {MongoEntry(database_configs[j].name) : j \in
                    {j \in 1..Len(database_configs) :
                        /\ IsMongo(database_configs[j])
                        /\ MongoPrefix \o database_configs[j].name = n}}
                \cup {PostgresEntry(database_configs[j].name) : j \in
                    {j \in 1..Len(database_configs) :
                        /\ IsPostgres(database_configs[j])
                        /\ PostgresPrefix \o database_configs[j].name = n}}
                \cup {MysqlEntry(database_configs[j].name) : j \in
                    {j \in 1..Len(database_configs) :
                        /\ IsMysql(database_configs[j])
                        /\ MysqlPrefix \o database_configs[j].name = n}}
        IN  \A n \in (DOMAIN prior_file.services) \ infrastructure_services :
                n \in DOMAIN svc =>
                    /\ svc[n] \in fresh(n)
                    /\ svc[n].extra = ""

\* A merge over a prior state with stale hand-edited entries lobby and
\* mongo-core, both regenerated by this run, and stale entries oldgame
\* and mongo-stats, which are gone.
C13_Witness ==
    /\ pc = "merged"
    /\ prior_file.state = "valid"
    /\ <<"l","o","b","b","y">> \in DOMAIN prior_file.services
    /\ prior_file.services[<<"l","o","b","b","y">>].extra = "manual"
    /\ (MongoPrefix \o Db_core) \in DOMAIN prior_file.services
    /\ prior_file.services[MongoPrefix \o Db_core].extra = "manual"
    /\ N_oldgame \in DOMAIN prior_file.services
    /\ <<"l","o","b","b","y">> \in DOMAIN compose_file.services
    /\ (MongoPrefix \o Db_core) \in DOMAIN compose_file.services
    /\ N_oldgame \notin DOMAIN compose_file.services
    /\ (MongoPrefix \o Db_stats) \notin DOMAIN compose_file.services

\* C14: two projects with the ids alpha and beta, no prior topology, both
\* built, no database configuration: the merged topology has exactly
\* two managed services, named after the sanitized ids of alpha and beta,
\* exactly one network and no resource service.
C14_EndToEnd ==
    (/\ Merged
     /\ prior_file.state = "absent"
     /\ Len(project_paths) = 2
     /\ {ProjectId(project_paths[i]) : i \in 1..2} = {Id_alpha, Id_beta}
     /\ \A i \in 1..2 : future[i] = "ok"
     /\ database_configs = <<>>)
    =>
        LET svc == compose_file.services
            managed == (DOMAIN svc) \ infrastructure_services
        IN  /\ managed = {ServiceName(Id_alpha), ServiceName(Id_beta)}
            /\ Cardinality(managed) = 2
            /\ Cardinality(DOMAIN compose_file.networks) = 1
            /\ \A n \in DOMAIN svc : svc[n].db_name = <<>>

\* C15: applying a sanitizer to its own output changes nothing, for the
\* sanitizers of the container name, the service name and the image tags.
C15_Idempotent == san_count >= 2 => san_text = san_prev

\* C16: the task at input index i (counted from 0) gets port 25565 + i,
\* no two tasks of a batch have the same port, and the port in a task's
\* result is the port of its own input index.
C16_PortByIndex ==
    /\ \A i \in DOMAIN completed_results :
          completed_results[i].port = 25565 + (i - 1)
    /\ \A i, j \in DOMAIN completed_results :
          i # j => completed_results[i].port # completed_results[j].port
    /\ \A i, j \in DOMAIN future :
          i # j => AssignedPort(i) # AssignedPort(j)

\* A batch of three whose first task failed and whose other two tasks
\* returned results: they keep the ports of their own indexes.
C16_Witness ==
    /\ pc = "building"
    /\ Len(project_paths) = 3
    /\ future = <<"fail", "ok", "ok">>
    /\ completed_results[2].port = 25566
    /\ completed_results[3].port = 25567

\* C17: a build task that returns a failure has removed its scratch
\* directory before it returns.
C17_ScratchRemoved ==
    (task_pc = "returned" /\ task_result = "None") => build_dir # "exists"

\* C18: a build task always ends by returning a value, its result or
\* its failure; it never ends with an exception leaving the function.
C18_NeverRaises == task_result # "raised"

\* Priority of a source: Modrinth, then Spiget, then the static fallback.
SourceRank(src) ==
    CASE src = "modrinth" -> 1
      [] src = "spiget" -> 2
      [] OTHER -> 3

Contacted == {dl_log[k] : k \in 1..Len(dl_log)}

Configured == IF dl_lib \in DOMAIN plugin_configs THEN plugin_configs[dl_lib] ELSE {}

\* C19: the sources are contacted in priority order and only when
\* configured; a source is reached only after every configured source
\* before it was tried and gave no valid file; True is returned on the
\* first download above 100000 bytes, with no later source contacted;
\* False is returned only after every configured source was tried; an
\* unknown library returns False without any contact.
C19_SourceOrder ==
    /\ Contacted \subseteq Configured
    /\ \A j, k \in 1..Len(dl_log) :
          j < k => SourceRank(dl_log[j]) <= SourceRank(dl_log[k])
    /\ dl_pc \in {"modrinth", "spiget", "fallback"} =>
          /\ dl_pc \in Configured
          /\ \A src \in Configured :
                SourceRank(src) < SourceRank(dl_pc) => src \in Contacted
          /\ \A src \in Contacted : SourceRank(src) <= SourceRank(dl_pc)
    /\ dl_result = "True" =>
          /\ dl_dest.exists
          /\ dl_dest.size > 100000
          /\ dl_log # <<>>
    /\ (dl_result = "False" /\ dl_lib \in DOMAIN plugin_configs) =>
          Contacted = Configured
    /\ dl_lib \notin DOMAIN plugin_configs => dl_log = <<>> /\ dl_result # "True"

\* ProtocolLib: both Modrinth files rejected, the Spiget download valid,
\* the fallback never contacted.
C19_Witness ==
    /\ dl_lib = "PROTOCOLLIB"
    /\ dl_result = "True"
    /\ dl_log = <<"modrinth", "modrinth", "modrinth", "spiget">>

\* C20: a rejected download leaves no file: between attempts and after
\* a call that returned False no file of the library exists; after a
\* call that returned True it exists.
C20_NoFileLeft ==
    /\ (dl_result = "none" /\ dl_pc # "idle") => ~dl_dest.exists
    /\ dl_result = "False" => ~dl_dest.exists
    /\ dl_result = "True" => dl_dest.exists

\* The downloads made from source src: every contact but the version
\* query of Modrinth.
Downloads(src) ==
    LET n == Cardinality({k \in 1..Len(dl_log) : dl_log[k] = src})
    IN  IF src = "modrinth" /\ n > 0 THEN n - 1 ELSE n

\* C21: within one call each source gets at most one download: after a
\* download from a source was rejected the next source is tried, never
\* another file of the same source.
C21_SingleAttempt ==
    \A src \in {"modrinth", "spiget", "fallback"} : Downloads(src) <= 1

\* C22: the engine-bridge jar of a task comes from exactly one source:
\* the override path when one is set, otherwise the most recently
\* modified built jar when there is one, otherwise the release; a task
\* that returns a result has its jar, and with an override set no other
\* source is ever used.
C22_BridgeSource ==
    /\ task_result = "dict" => engine_bridge_jar.source # "none"
    /\ engine_bridge_jar.source # "none" =>
          /\ engine_bridge_jar.source =
                (IF task_in.use_local_jar THEN "override"
                 ELSE IF task_in.built_jars # {} THEN "local_build"
                 ELSE "release")
          /\ engine_bridge_jar.source = "local_build" =>
                /\ engine_bridge_jar.mtime \in task_in.built_jars
                /\ \A o \in task_in.built_jars : o <= engine_bridge_jar.mtime
    /\ task_in.use_local_jar => engine_bridge_jar.source \in {"none", "override"}

\* A task with an override set and two built jars present that returned
\* its result with the override jar.
C22_Witness ==
    /\ task_in.use_local_jar
    /\ task_in.built_jars = {1, 2}
    /\ task_result = "dict"
    /\ engine_bridge_jar.source = "override"

\* C23: a task returns a result only with its mandatory artifacts: the
\* engine-bridge jar, and the Floodgate jar unless the project brings
\* one of its own; a declared library that could not be downloaded does
\* not keep the task from its result.
C23_MandatoryFatal ==
    task_result = "dict" =>
        /\ engine_bridge_jar.source # "none"
        /\ floodgate_present \/ task_in.external_floodgate

\* C24: with an existing paper-global.yml the build does not fail because
\* of what the file holds, and every field of it other than enabled,
\* online-mode and secret under proxies.velocity has the same value in
\* the file the build writes.
C24_PaperGlobalMerge ==
    /\ paper_written.state # "error"
    /\ (paper_written.state = "map" /\ task_in.paper_global.state = "map") =>
          /\ paper_written.top = task_in.paper_global.top
          /\ paper_written.bungee = task_in.paper_global.bungee
          /\ paper_written.velocity_extra = task_in.paper_global.velocity_extra
          /\ paper_written.velocity_set

\* C25: every derived identifier (the container name, the service name
\* and each image tag) holds only ASCII letters and digits, '-' and '_',
\* and the two names are in lower case.
C25_SafeIdentifiers ==
    san_count = 1 =>
        /\ \A k \in 1..Len(san_text) :
              IsAscii(san_text[k]) /\ KeepChar(san_text[k])
        /\ san_kind \in {"container", "service"} => Lower(san_text) = san_text

\* C26: after a merge every resource service entry of the topology (an
\* entry labelled with a database name) names a volume that is a key of
\* the volumes mapping, and the networks mapping has exactly one entry
\* for the network that the generated services join.
C26_VolumesAndNetwork ==
    pc = "merged" =>
        LET svc == compose_file.services
        IN  /\ \A n \in DOMAIN svc :
                  svc[n].db_name # <<>> =>
                      svc[n].volume \in DOMAIN compose_file.volumes
            /\ Cardinality({n \in DOMAIN compose_file.networks :
                               n = NetworkName}) = 1

\* A first merge (no prior state) that creates a MongoDB and a
\* PostgreSQL service, each with its volume.
C26_Witness ==
    /\ pc = "merged"
    /\ prior_file.state = "absent"
    /\ (MongoPrefix \o Db_core) \in DOMAIN compose_file.services
    /\ (PostgresPrefix \o Db_users) \in DOMAIN compose_file.services
    /\ (MongoVolPrefix \o Db_core) \in DOMAIN compose_file.volumes
    /\ (PostgresVolPrefix \o Db_users) \in DOMAIN compose_file.volumes

\* C27: the container name the build writes to .mineplex-common-name
\* equals the POD_NAME value and the container-name label of the
\* project's service entry.
C27_IdentityMarker ==
    pod.pc = "merged" =>
        /\ pod.marker = pod.environment["POD_NAME"]
        /\ pod.marker = pod.container_label

\* C28: in the service entry every variable the merger sets itself holds
\* the merger's value, whatever secret keys are declared and whatever is
\* typed for them, and every other variable is a declared secret key.
C28_FixedVariables ==
    pod.pc = "merged" =>
        LET fixed == ServiceEnvironment(pod.project.project_id,
                                        pod.container_label)
            declared == {pod.project.secret_env_keys[i] :
                            i \in 1..Len(pod.project.secret_env_keys)}
        IN  /\ \A k \in DOMAIN fixed : pod.environment[k] = fixed[k]
            /\ (DOMAIN pod.environment) \ (DOMAIN fixed) \subseteq declared

\* The workloads that a returned container name belongs to.
WorkloadsOf(container) ==
    {Workloads[k] : k \in {k \in 1..Len(Workloads) :
        container \in {SwarmContainerName(Workloads[k]),
                       ComposeContainerName(Workloads[k])}}}

\* C29: in Swarm and in Compose mode every (container, service) pair of
\* get_minecraft_containers is the container of a Minecraft game service
\* of the local-docker stack, and its service is none of velocity,
\* mongodb, kafka, zookeeper and kafka-ui.
C29_NoInfrastructure ==
    \A k \in 1..Len(mc.containers) :
        /\ \A w \in WorkloadsOf(mc.containers[k].container) : w.kind = "game"
        /\ mc.containers[k].service \notin infrastructure_services

\* The Minecraft services of the topology the run was given: the names
\* of the entries that are not infrastructure and have a project id.
ToRebuild ==
    LET e == rb.compose.services
    IN  {e[k].name : k \in {k \in 1..Len(e) :
            /\ e[k].name \notin infrastructure_services
            /\ e[k].project_id # <<>>}}

Attempted == {rb.attempts[k].name : k \in 1..Len(rb.attempts)}

PreconditionMissing ==
    \/ rb.compose.state = "absent"
    \/ ToRebuild = {}
    \/ rb.paths_file.state # "valid"
    \/ rb.paths_file.paths = EmptyMap

\* C30: in a rebuild run no service is attempted twice and only
\* Minecraft services are attempted; the redeploy runs at most once and
\* only after every Minecraft service had its attempt, whether or not an
\* attempt rebuilt an image; a run that ends without a missing
\* precondition has attempted every service once and redeployed once;
\* and the exit status is non-zero exactly when a precondition is
\* missing or the redeploy failed.
C30_RebuildRun ==
    /\ Attempted \subseteq ToRebuild
    /\ Cardinality(Attempted) = Len(rb.attempts)
    /\ rb.redeploys <= 1
    /\ rb.redeploys = 1 => Attempted = ToRebuild
    /\ rb.pc = "exited" =>
          /\ PreconditionMissing => (rb.redeploys = 0 /\ rb.attempts = <<>>)
          /\ ~PreconditionMissing => rb.redeploys = 1
          /\ rb.exit_code # 0 <=>
                (PreconditionMissing \/ rb.redeploy_result = "False")

\* A run over three Minecraft services whose first attempt failed, whose
\* second rebuilt an image, and which redeployed and ended with status 0.
C30_Witness ==
    /\ rb.pc = "exited"
    /\ rb.exit_code = 0
    /\ Len(rb.attempts) = 3
    /\ ~rb.attempts[1].rebuilt
    /\ rb.attempts[2].rebuilt
    /\ rb.redeploys = 1
    /\ rb.redeploy_result = "True"

====
